---- MODULE Spec2Model ----
(***************************************************************************)
(* Model selection for per-word hidden Markov models (SelectorConstant,    *)
(* SelectorBIC, SelectorDIC, SelectorCV of my_model_selectors.py) and the  *)
(* recognizer (recognize of my_recognizer.py).                             *)
(*                                                                         *)
(* The Training Oracle (hmmlearn's GaussianHMM.fit / .score) and the fold  *)
(* partitioner (sklearn's KFold, asl_utils.combine_sequences) are external:*)
(* every call of fit either succeeds or raises, every call of score either *)
(* raises or returns a log-likelihood, and the model draws each outcome    *)
(* nondeterministically.  Each run of a selector is one behaviour: Init    *)
(* draws the constructor's arguments, one action runs one iteration of the *)
(* candidate loop, and a last action returns.                              *)
(***************************************************************************)
EXTENDS Integers, Sequences, FiniteSets

VARIABLES
    pc,             \* position of the running operation
    min_n,          \* self.min_n_components
    max_n,          \* self.max_n_components
    n_constant,     \* self.n_constant
    n_features,     \* model.n_features (width of a feature frame)
    n_obs,          \* len(self.X): number of frames of this word
    num_sequences,  \* len(self.sequences)
    num_words,      \* len(self.hwords) for a selector, len(models) for recognize
    num_items,      \* test_set.num_items
    n,              \* loop variable of the candidate loop
    best_score,     \* best_score
    best_model,     \* best_model
    best_n,         \* best_n
    hist,           \* log: what happened to each candidate, in loop order
    fit_log,        \* log: every call of the oracle's fit, in call order
    result,         \* what the operation returned
    raised,         \* TRUE when an exception left the operation
    probabilities,  \* recognize: list of score maps
    guesses,        \* recognize: list of best guesses
    scorings        \* recognize: per test item, what each model's score call
                    \* on that item does (raises, or the log-likelihood)

vars == <<pc, min_n, max_n, n_constant, n_features, n_obs, num_sequences,
          num_words, num_items, n, best_score, best_model, best_n, hist,
          fit_log, result, raised, probabilities, guesses, scorings>>

inputs == <<min_n, max_n, n_constant, n_features, n_obs, num_sequences,
            num_words, num_items>>

recognizerState == <<probabilities, guesses, scorings>>

selectorState == <<n, best_score, best_model, best_n, hist, fit_log>>

----------------------------------------------------------------------------
(* Bounds of the model.                                                    *)

\* smallest and largest candidate state count a search range may hold
MinStates == 2
MaxStates == 4
\* largest n_constant
MaxConstant == 5
\* largest number of frames of the word
MaxObs == 2
\* largest width of a feature frame
MaxFeatures == 2
\* largest number of sequences of the word
MaxSequences == 3
\* largest number of words (categories) of a selector's data set
MaxWords == 3
\* largest number of models handed to recognize
MaxModels == 2
\* largest number of test items
MaxItems == 2

\* k = min(3, len(self.sequences))
MaxFolds == 3

----------------------------------------------------------------------------
(* Extended reals: <<-1, 0>> is -inf, <<0, v>> is the finite v, <<1, 0>>   *)
(* is +inf.  Raises stands for a call that raised instead of returning.    *)

PosInf == <<1, 0>>
NegInf == <<-1, 0>>
Fin(v) == <<0, v>>
Raises == <<2, 0>>

\* a < b on extended reals
LT(a, b) == \/ a[1] < b[1]
            \/ a[1] = 0 /\ b[1] = 0 /\ a[2] < b[2]

\* a <= b on extended reals
LE(a, b) == ~LT(b, a)

\* The log-likelihoods the oracle's score may return.
LogLs == {-5, -1}

\* Outcomes of one model.score call.
ScoreOutcomes == {Raises} \cup {Fin(v) : v \in LogLs}

RECURSIVE Factorial(_)
Factorial(m) == IF m <= 1 THEN 1 ELSE m * Factorial(m - 1)

\* Averages are kept exactly, in units of 1 / Denominator: every divisor that
\* occurs (a number of foreign words, a number of folds) divides it.
Denominator == Factorial(MaxWords) * Factorial(MaxFolds)

RECURSIVE SumOver(_, _)
\* the sum of f[x] (finite extended reals) over x in S
SumOver(f, S) ==
    IF S = {} THEN 0
    ELSE LET x == CHOOSE y \in S : TRUE
         IN  f[x][2] + SumOver(f, S \ {x})

\* np.log(N) in fixed point, floor(100 * ln N), for N = 1 .. 8.
LnTimes100 == <<0, 69, 109, 138, 160, 179, 194, 207>>

----------------------------------------------------------------------------
(* Models and data sets.  A data set is the set of the indices of the      *)
(* sequences it concatenates; self.X is all of them.                       *)

None == [n_components |-> 0, fitted_on |-> {}]

FullData == 1 .. num_sequences

\* One call of GaussianHMM.fit, as logged.
FitCall(states, data, ok) == [n |-> states, data |-> data, ok |-> ok]

\* base_model with the state count of the search range's start instead of the
\* one asked for.
base_model_min_n(num_states, fit_ok) ==
    IF fit_ok THEN [n_components |-> min_n, fitted_on |-> FullData]
    ELSE None

\* ModelSelector.base_model: a model with num_states states fitted on
\* self.X, or None when the oracle raised (the bare except catches all).
base_model(num_states, fit_ok) ==
    IF fit_ok THEN [n_components |-> num_states, fitted_on |-> FullData]
    ELSE None

\* model.fit(X, lengths) on a model that exists: refits in place, returns self.
Refit(model, data) == [model EXCEPT !.fitted_on = data]

----------------------------------------------------------------------------
(* State common to every operation before it runs.                         *)

InitState ==
    /\ best_model = None
    /\ best_n = 0
    /\ hist = <<>>
    /\ fit_log = <<>>
    /\ result = None
    /\ raised = FALSE
    /\ probabilities = <<>>
    /\ guesses = <<>>

----------------------------------------------------------------------------
(* SelectorConstant.select                                                 *)

InitConstant ==
    /\ InitState
    /\ pc = "Constant"
    /\ scorings = <<>>
    /\ best_score = NegInf
    /\ n_constant \in 1 .. MaxConstant
    /\ min_n \in MinStates .. MaxStates
    /\ max_n \in MinStates .. MaxStates
    /\ n = min_n
    /\ num_sequences \in 1 .. MaxSequences
    /\ n_features = 1
    /\ n_obs = 1
    /\ num_words = 1
    /\ num_items = 0

ConstantSelect ==
    /\ pc = "Constant"
    /\ \E fit_ok \in BOOLEAN :
         LET best_num_components == n_constant
         IN  /\ fit_log' = Append(fit_log,
                                  FitCall(best_num_components, FullData, fit_ok))
             /\ result' = base_model(best_num_components, fit_ok)
    /\ pc' = "done"
    /\ UNCHANGED <<inputs, n, best_score, best_model, best_n, hist, raised,
                   recognizerState>>

SpecConstant == InitConstant /\ [][ConstantSelect]_vars

----------------------------------------------------------------------------
(* SelectorBIC.select                                                      *)

\* number of free parameters of an n-state model over d features
BICParams(states, d) == states * states + 2 * states * d - 1

\* -2 * logL + p * np.log(n_obs), in hundredths
BICScore(states, d, logL, N) ==
    Fin(-2 * logL[2] * 100 + BICParams(states, d) * LnTimes100[N])

\* score <= best_score: a later candidate replaces an equal one
BICImprovesOrTies(score, best) == LE(score, best)

\* if score < best_score
BICImproves(score, best) == LT(score, best)

InitBIC ==
    /\ InitState
    /\ pc = "BIC"
    /\ scorings = <<>>
    /\ best_score = PosInf
    /\ min_n \in MinStates .. MaxStates
    /\ max_n \in MinStates .. MaxStates
    /\ n = min_n
    /\ n_features \in 1 .. MaxFeatures
    /\ n_obs \in 1 .. MaxObs
    /\ n_constant = 3
    /\ num_sequences = 1
    /\ num_words = 1
    /\ num_items = 0

\* How far the body of BIC's loop got for one candidate.
BICStage(model, fit_ok, logL) ==
    IF model = None THEN "base_failed"        \* None.fit: AttributeError
    ELSE IF ~fit_ok THEN "fit_failed"
    ELSE IF logL = Raises THEN "score_failed"
    ELSE "scored"

\* One iteration of the loop over n: the try block and its except/continue.
BICIter ==
    /\ pc = "BIC"
    /\ n <= max_n
    /\ \E base_ok \in BOOLEAN, fit_ok \in BOOLEAN, logL \in ScoreOutcomes :
         LET model == base_model(n, base_ok)
             stage == BICStage(model, fit_ok, logL)
             score == IF stage = "scored"
                      THEN BICScore(n, n_features, logL, n_obs)
                      ELSE Raises
             better == stage = "scored" /\ BICImproves(score, best_score)
         IN  /\ fit_log' = fit_log
                    \o <<FitCall(n, FullData, base_ok)>>
                    \o (IF base_ok THEN <<FitCall(n, FullData, fit_ok)>> ELSE <<>>)
             /\ hist' = Append(hist, [n |-> n, stage |-> stage,
                                      logL |-> IF stage = "scored" THEN logL ELSE Raises,
                                      score |-> score])
             /\ best_score' = IF better THEN score ELSE best_score
             /\ best_model' = IF better THEN Refit(model, FullData) ELSE best_model
             /\ best_n' = IF better THEN n ELSE best_n
    /\ n' = n + 1
    /\ UNCHANGED <<pc, inputs, result, raised, recognizerState>>

\* return best_model
BICReturn ==
    /\ pc = "BIC"
    /\ n > max_n
    /\ result' = best_model
    /\ pc' = "done"
    /\ UNCHANGED <<inputs, selectorState, raised, recognizerState>>

NextBIC == BICIter \/ BICReturn

SpecBIC == InitBIC /\ [][NextBIC]_vars

----------------------------------------------------------------------------
(* SelectorDIC.select.  this_word is word 1, the other keys of self.hwords *)
(* are words 2 .. num_words.                                               *)

OtherWords == 2 .. num_words

\* logL - 1/float(count) * sum_anti_ll, in units of 1 / Denominator
DICScore(logL, sum_anti_ll, count) ==
    Fin(Denominator * logL[2] - (Denominator \div count) * sum_anti_ll)

\* score >= best_score: a later candidate replaces an equal one
DICImprovesOrTies(score, best) == LE(best, score)

\* if score > best_score
DICImproves(score, best) == LT(best, score)

InitDIC ==
    /\ InitState
    /\ pc = "DIC"
    /\ scorings = <<>>
    /\ best_score = NegInf
    /\ min_n \in MinStates .. MaxStates
    /\ max_n \in MinStates .. MaxStates
    /\ n = min_n
    /\ num_words \in 1 .. MaxWords
    /\ n_features = 1
    /\ n_obs = 1
    /\ n_constant = 3
    /\ num_sequences = 1
    /\ num_items = 0

\* A loop over the foreign words that catches each word's failure and goes
\* on with the next word.
DICStageTolerant(model, fit_ok, logL, anti) ==
    IF model = None THEN "base_failed"
    ELSE IF ~fit_ok THEN "fit_failed"
    ELSE IF logL = Raises THEN "score_failed"
    ELSE IF \A w \in OtherWords : anti[w] = Raises THEN "div_zero"
    ELSE "scored"

\* How far the body of DIC's loop got for one candidate; anti[w] is the
\* outcome of model.score on word w's data.
DICStage(model, fit_ok, logL, anti) ==
    IF model = None THEN "base_failed"        \* None.fit: AttributeError
    ELSE IF ~fit_ok THEN "fit_failed"
    ELSE IF logL = Raises THEN "score_failed"
    ELSE IF \E w \in OtherWords : anti[w] = Raises THEN "anti_failed"
    ELSE IF OtherWords = {} THEN "div_zero"   \* 1/float(0): ZeroDivisionError
    ELSE "scored"

\* One iteration of the loop over n: the try block and its except/continue.
DICIter ==
    /\ pc = "DIC"
    /\ n <= max_n
    /\ \E base_ok \in BOOLEAN, fit_ok \in BOOLEAN, logL \in ScoreOutcomes,
          anti \in [OtherWords -> ScoreOutcomes] :
         LET model == base_model(n, base_ok)
             stage == DICStage(model, fit_ok, logL, anti)
             answered == {w \in OtherWords : anti[w] # Raises}
             \* count and sum_anti_ll cover the words whose score returned
             count == Cardinality(answered)
             sum_anti_ll == SumOver(anti, answered)
             score == IF stage = "scored"
                      THEN DICScore(logL, sum_anti_ll, count)
                      ELSE Raises
             better == stage = "scored" /\ DICImproves(score, best_score)
             self_ok == stage \in {"anti_failed", "div_zero", "scored"}
         IN  /\ fit_log' = fit_log
                    \o <<FitCall(n, FullData, base_ok)>>
                    \o (IF base_ok THEN <<FitCall(n, FullData, fit_ok)>> ELSE <<>>)
             /\ hist' = Append(hist,
                    [n |-> n, stage |-> stage,
                     logL |-> IF self_ok THEN logL ELSE Raises,
                     \* what the oracle answered for the foreign words
                     anti_sum |-> IF self_ok THEN sum_anti_ll ELSE 0,
                     anti_count |-> IF self_ok THEN count ELSE 0,
                     score |-> score])
             /\ best_score' = IF better THEN score ELSE best_score
             /\ best_model' = IF better THEN Refit(model, FullData) ELSE best_model
             /\ best_n' = IF better THEN n ELSE best_n
    /\ n' = n + 1
    /\ UNCHANGED <<pc, inputs, result, raised, recognizerState>>

\* return best_model
DICReturn ==
    /\ pc = "DIC"
    /\ n > max_n
    /\ result' = best_model
    /\ pc' = "done"
    /\ UNCHANGED <<inputs, selectorState, raised, recognizerState>>

NextDIC == DICIter \/ DICReturn

SpecDIC == InitDIC /\ [][NextDIC]_vars

----------------------------------------------------------------------------
(* SelectorCV.select                                                       *)

Min(a, b) == IF a < b THEN a ELSE b

\* KFold(n_splits=k).split over S sequences, fold j = 1 .. k: the test
\* indices are consecutive blocks, the first S % k of them one longer.
TestIdx(S, k, j) ==
    LET start == (j - 1) * (S \div k) + Min(j - 1, S % k)
        size == (S \div k) + (IF j <= S % k THEN 1 ELSE 0)
    IN  (start + 1) .. (start + size)

TrainIdx(S, k, j) == (1 .. S) \ TestIdx(S, k, j)

\* a partitioner that accepts any k
KFoldNeverRaises(k) == FALSE

\* KFold(n_splits=k) raises ValueError unless k >= 2.
KFoldRaises(k) == k < 2

\* Outcomes of one fold: model.fit raised, model.score raised, or the
\* held-out log-likelihood.
FitRaises == <<3, 0>>
FoldOutcomes == {FitRaises} \cup ScoreOutcomes
FoldFailed(o) == o \in {FitRaises, Raises}

\* score /= 3 whatever k is
CVScoreByMaxFolds(sum, k) == Fin((Denominator \div MaxFolds) * sum)

\* score /= k after the fold loop, in units of 1 / Denominator
CVScore(sum, k) == Fin((Denominator \div k) * sum)

\* if score > best_score
CVImproves(score, best) == LT(best, score)

\* number of folds
Folds == Min(MaxFolds, num_sequences)

InitCV ==
    /\ InitState
    /\ pc = "CV"
    /\ scorings = <<>>
    /\ best_score = NegInf
    /\ min_n \in MinStates .. MaxStates
    /\ max_n \in MinStates .. MaxStates
    /\ n = min_n
    /\ num_sequences \in 1 .. MaxSequences
    /\ num_words = 1
    /\ n_features = 1
    /\ n_obs = 1
    /\ n_constant = 3
    /\ num_items = 0

\* The folds the loop body ran: all of them, or up to the first that raised.
Executed(outs, k) ==
    LET failing == {j \in 1 .. k : FoldFailed(outs[j])}
        last == IF failing = {} THEN k
                ELSE CHOOSE j \in failing : \A i \in failing : j <= i
    IN  [j \in 1 .. last |-> outs[j]]

CVStage(model, k, ran) ==
    IF KFoldRaises(k) THEN "kfold_failed"
    ELSE IF model = None THEN "base_failed"     \* None.fit: AttributeError
    ELSE IF \E j \in 1 .. Len(ran) : FoldFailed(ran[j]) THEN "fold_failed"
    ELSE "scored"

\* One iteration of the loop over n: the try block and its except/continue.
CVIter ==
    /\ pc = "CV"
    /\ n <= max_n
    /\ \E base_ok \in BOOLEAN, outs \in [1 .. Folds -> FoldOutcomes] :
         LET k == Folds
             model == base_model(n, base_ok)
             ran == IF KFoldRaises(k) \/ model = None THEN <<>>
                    ELSE Executed(outs, k)
             stage == CVStage(model, k, ran)
             score == IF stage = "scored"
                      THEN CVScore(SumOver(ran, 1 .. k), k)
                      ELSE Raises
             better == stage = "scored" /\ CVImproves(score, best_score)
         IN  /\ fit_log' = fit_log
                    \o <<FitCall(n, FullData, base_ok)>>
                    \o [j \in 1 .. Len(ran) |->
                          FitCall(n, TrainIdx(num_sequences, k, j),
                                  ran[j] # FitRaises)]
             /\ hist' = Append(hist, [n |-> n, stage |-> stage, folds |-> ran,
                                      score |-> score])
             /\ best_score' = IF better THEN score ELSE best_score
             /\ best_model' = IF better
                              THEN Refit(model, TrainIdx(num_sequences, k, k))
                              ELSE best_model
             /\ best_n' = IF better THEN n ELSE best_n
    /\ n' = n + 1
    /\ UNCHANGED <<pc, inputs, result, raised, recognizerState>>

\* if best_model: return best_model.fit(self.X, self.lengths)
\* The fit is outside every try block.
CVRefit ==
    /\ pc = "CV"
    /\ n > max_n
    /\ best_model # None
    /\ \E fit_ok \in BOOLEAN :
         /\ fit_log' = Append(fit_log, FitCall(best_model.n_components,
                                               FullData, fit_ok))
         /\ result' = IF fit_ok THEN Refit(best_model, FullData) ELSE result
         /\ raised' = ~fit_ok
    /\ pc' = "done"
    /\ UNCHANGED <<inputs, n, best_score, best_model, best_n, hist,
                   recognizerState>>

\* return None
CVReturnNone ==
    /\ pc = "CV"
    /\ n > max_n
    /\ best_model = None
    /\ result' = None
    /\ pc' = "done"
    /\ UNCHANGED <<inputs, selectorState, raised, recognizerState>>

NextCV == CVIter \/ CVRefit \/ CVReturnNone

SpecCV == InitCV /\ [][NextCV]_vars

----------------------------------------------------------------------------
(* recognize.  models.keys() iterates words 1 .. num_words in this order.  *)

\* best_guess = None
NoGuess == 0

Words == 1 .. num_words

\* if ll > best_score
GuessImproves(ll, best) == LT(best, ll)

\* the failure is passed on instead of becoming -inf
ScoreUnguarded(outcome) == outcome

\* try: ll = models[w].score(X, l)  except Exception: ll = -np.inf
ScoreOrNegInf(outcome) == IF outcome = Raises THEN NegInf ELSE outcome

RECURSIVE ScanWords(_, _, _, _)
\* The loop over models.keys() from word w on; returns best_guess.
ScanWords(probs_i, w, score, guess) ==
    IF w > num_words THEN guess
    ELSE IF GuessImproves(probs_i[w], score)
         THEN ScanWords(probs_i, w + 1, probs_i[w], w)
         ELSE ScanWords(probs_i, w + 1, score, guess)

InitRecognize ==
    /\ InitState
    /\ pc = "recognize"
    /\ best_score = NegInf
    /\ num_words \in 0 .. MaxModels
    /\ num_items \in 0 .. MaxItems
    /\ scorings \in [1 .. num_items -> [Words -> ScoreOutcomes]]
    /\ min_n = MinStates
    /\ max_n = MinStates
    /\ n = MinStates
    /\ num_sequences = 1
    /\ n_features = 1
    /\ n_obs = 1
    /\ n_constant = 3

\* One iteration of the loop over the test items.
RecognizeItem ==
    /\ pc = "recognize"
    /\ Len(guesses) < num_items
    /\ LET i == Len(guesses) + 1
           probs_i == [w \in Words |-> ScoreOrNegInf(scorings[i][w])]
           best_guess == ScanWords(probs_i, 1, NegInf, NoGuess)
       IN  /\ probabilities' = Append(probabilities, probs_i)
           /\ guesses' = Append(guesses, best_guess)
    /\ UNCHANGED <<pc, inputs, selectorState, result, raised, scorings>>

\* return probabilities, guesses
RecognizeReturn ==
    /\ pc = "recognize"
    /\ Len(guesses) >= num_items
    /\ pc' = "done"
    /\ UNCHANGED <<inputs, selectorState, result, raised, recognizerState>>

NextRecognize == RecognizeItem \/ RecognizeReturn

SpecRecognize == InitRecognize /\ [][NextRecognize]_vars

----------------------------------------------------------------------------
(* Properties.                                                             *)

\* positions in hist of the candidates that were scored
ScoredAt == {i \in DOMAIN hist : hist[i].stage = "scored"}

\* the position in hist of the candidate the returned model belongs to
WinnerAt(model) == {i \in DOMAIN hist : hist[i].n = model.n_components}

\* -2 * logL + p * ln(N) with p = n^2 + 2*n*d - 1, in hundredths
StatedBIC(e) ==
    -2 * e.logL[2] * 100 + (e.n * e.n + 2 * e.n * n_features - 1) * LnTimes100[n_obs]

\* C1: when SelectorBIC.select returns a model, the model's candidate was
\* scored, its BIC is <= the BIC of every candidate that was fit and scored
\* in the run, and no candidate with a smaller n has the same BIC.
C1_BICMinimum ==
    (pc = "done" /\ result # None) =>
        \E w \in ScoredAt :
            /\ WinnerAt(result) = {w}
            /\ \A i \in ScoredAt :
                 /\ StatedBIC(hist[w]) <= StatedBIC(hist[i])
                 /\ StatedBIC(hist[w]) = StatedBIC(hist[i]) => hist[w].n <= hist[i].n

\* A run in which two scored candidates tie on the least BIC and one in
\* which a later candidate beats an earlier one both end in such states;
\* this one is the tie.
C1_Witness ==
    /\ pc = "done"
    /\ result # None
    /\ \E i, j \in ScoredAt :
         /\ i < j
         /\ hist[i].n = result.n_components
         /\ StatedBIC(hist[i]) = StatedBIC(hist[j])
    /\ \E i \in DOMAIN hist : hist[i].stage # "scored"

\* logL_self minus the mean of the foreign log-likelihoods, in units of
\* 1 / Denominator
StatedDIC(e) ==
    Denominator * e.logL[2] - (Denominator * e.anti_sum) \div e.anti_count

\* C2: when SelectorDIC.select returns a model, the model's candidate was
\* scored, its DIC is >= the DIC of every candidate that was scored in the
\* run, and no candidate with a smaller n has the same DIC.
C2_DICMaximum ==
    (pc = "done" /\ result # None) =>
        \E w \in ScoredAt :
            /\ WinnerAt(result) = {w}
            /\ \A i \in ScoredAt :
                 /\ StatedDIC(hist[w]) >= StatedDIC(hist[i])
                 /\ StatedDIC(hist[w]) = StatedDIC(hist[i]) => hist[w].n <= hist[i].n

C2_Witness ==
    /\ pc = "done"
    /\ result # None
    /\ num_words = MaxWords
    /\ \E i, j \in ScoredAt :
         /\ i < j
         /\ hist[i].n = result.n_components
         /\ StatedDIC(hist[i]) = StatedDIC(hist[j])
         /\ hist[i].logL # hist[j].logL

\* positions in hist of the candidates that fit and scored on the word's own
\* data while the scoring of a foreign word raised
AntiFailedAt == {i \in DOMAIN hist : hist[i].stage = "anti_failed"}

SelfScoredAt ==
    {i \in DOMAIN hist : hist[i].stage \in {"anti_failed", "div_zero", "scored"}}

\* C4: select returns None if and only if no candidate of the range was
\* fit and scored on the word's own data, and raises nothing.
C4_NoneIffAllFailed ==
    pc = "done" =>
        /\ ~raised
        /\ (result = None) <=> (SelfScoredAt = {})

\* the folds of a logged candidate all ran and none raised
AllFoldsSucceeded(e) ==
    /\ Len(e.folds) = Folds
    /\ \A j \in DOMAIN e.folds : ~FoldFailed(e.folds[j])

\* positions in hist of the candidates whose folds all succeeded
CompleteAt == {i \in DOMAIN hist : AllFoldsSucceeded(hist[i])}

\* C5: a candidate whose k fold fits and k scorings all succeed gets the
\* mean of exactly those k log-likelihoods as its score and takes part in
\* the comparison; a candidate with a failure in a fold gets no score and is
\* never the best; the best n is the first candidate with the highest mean.
C5_CVMean ==
    /\ \A i \in CompleteAt :
         /\ hist[i].stage = "scored"
         /\ hist[i].score[1] = 0
         /\ hist[i].score[2] * Folds
                = Denominator * SumOver(hist[i].folds, 1 .. Folds)
    /\ \A i \in DOMAIN hist \ CompleteAt :
         /\ hist[i].score = Raises
         /\ best_n # hist[i].n
    /\ CompleteAt = {} => best_n = 0 /\ best_model = None
    /\ CompleteAt # {} =>
         \E w \in CompleteAt :
             /\ best_n = hist[w].n
             /\ best_model.n_components = hist[w].n
             /\ best_score = hist[w].score
             /\ \A i \in CompleteAt :
                  /\ SumOver(hist[w].folds, 1 .. Folds)
                        >= SumOver(hist[i].folds, 1 .. Folds)
                  /\ i < w => SumOver(hist[w].folds, 1 .. Folds)
                                 > SumOver(hist[i].folds, 1 .. Folds)

\* A candidate that failed in its last fold, with a partial sum behind it, is
\* followed by a complete one that becomes the best; k = 2.
C5_Witness ==
    /\ Folds = 2
    /\ \E i \in DOMAIN hist \ CompleteAt, w \in CompleteAt :
         /\ i < w
         /\ Len(hist[i].folds) = Folds
         /\ best_n = hist[w].n

\* C6: after the search, select never raises; the model it returns has the
\* winning n and was last fit on the whole data of the word; it returns None
\* when no candidate was scored and when the last fit on the whole data
\* fails.
C6_RefitContract ==
    pc = "done" =>
        /\ ~raised
        /\ result # None =>
             /\ result.n_components = best_n
             /\ result.fitted_on = FullData
        /\ ScoredAt = {} => result = None
        /\ (fit_log # <<>> /\ ~fit_log[Len(fit_log)].ok) => result = None

\* C7: every guess is a word of the item's score map whose score is the
\* greatest of the map, and the first such word in iteration order.
C7_GuessIsArgMax ==
    \A i \in DOMAIN guesses :
        num_words >= 1 =>
            /\ guesses[i] \in Words
            /\ \A w \in Words :
                 /\ LE(probabilities[i][w], probabilities[i][guesses[i]])
                 /\ w < guesses[i] =>
                      LT(probabilities[i][w], probabilities[i][guesses[i]])

\* C8: recognize does not raise; both lists have one entry per test item
\* handled, in the order of the items; the score map of item i has the
\* models' keys as its keys and holds what the model of each word answered
\* for item i, -inf where it raised; and two items on which the models
\* answer alike get the same score map and the same guess.
C8_RecognizeOutput ==
    /\ ~raised
    /\ Len(probabilities) = Len(guesses)
    /\ Len(guesses) <= num_items
    /\ pc = "done" => Len(guesses) = num_items
    /\ \A i \in DOMAIN probabilities :
         /\ DOMAIN probabilities[i] = Words
         /\ \A w \in Words :
              probabilities[i][w]
                  = IF scorings[i][w] = Raises THEN NegInf ELSE scorings[i][w]
    /\ \A i, j \in DOMAIN guesses :
         scorings[i] = scorings[j] =>
             /\ probabilities[i] = probabilities[j]
             /\ guesses[i] = guesses[j]

\* Two items are done, the models answer differently on them, and a scoring
\* raised for the first.
C8_Witness ==
    /\ pc = "done"
    /\ num_items >= 2
    /\ num_words >= 2
    /\ scorings[1] # scorings[2]
    /\ scorings[1][1] = Raises
    /\ scorings[1][2] # Raises
    /\ guesses[1] # guesses[2]

\* C9: SelectorCV.select on a word with one sequence uses k = 1, never
\* raises, can always take its next step until it has returned, and
\* returns None.
C9_SingleSequence ==
    num_sequences = 1 =>
        /\ Folds = 1
        /\ ~raised
        /\ pc # "done" => ENABLED NextCV
        /\ pc = "done" => result = None

C9_Witness ==
    /\ num_sequences = 1
    /\ pc = "done"
    /\ Len(hist) = MaxStates - MinStates + 1
    /\ \E i \in DOMAIN fit_log : fit_log[i].ok

\* C10: SelectorConstant.select calls the oracle's fit exactly once, with
\* n_constant states on the word's whole data, raises nothing, and returns
\* a model with n_constant states when that fit succeeded and None when it
\* did not.
C10_ConstantVerbatim ==
    pc = "done" =>
        /\ Len(fit_log) = 1
        /\ fit_log[1].n = n_constant
        /\ fit_log[1].data = FullData
        /\ ~raised
        /\ fit_log[1].ok => result # None /\ result.n_components = n_constant
        /\ ~fit_log[1].ok => result = None

\* n_constant lies outside the search range and the fit succeeds.
C10_Witness ==
    /\ pc = "done"
    /\ n_constant > max_n
    /\ min_n < max_n
    /\ result # None

====
